---- MODULE Spec2Model ----
(***************************************************************************)
(* A model of SALib's Latin hypercube sampler (SALib/sample/latin.py), its *)
(* radial one-at-a-time sampler (SALib/sample/radial.py) and the Jansen    *)
(* total-effect estimator (SALib/analyze/sobol_jansen.py).                 *)
(*                                                                         *)
(* Numbers.  Python arrays are 0-based; the sequences below are 1-based,   *)
(* so the source's a[k] is a[k+1] here.  Reals are exact fractions: a      *)
(* sample coordinate is an integer numerator over a denominator kept next  *)
(* to the matrix, and an estimator value is a pair <<n, d>> (see Frac).    *)
(* Of the rounding of doubles, the model keeps what decides a stratum: the *)
(* ends j * d of the Latin sampler's strata and the draws that round to    *)
(* the upper end (see StratumEnd and Uniform); and what decides whether    *)
(* two scaled coordinates are equal: the rounding of the scaling over a    *)
(* range a few doubles wide (see scale_value).                             *)
(***************************************************************************)
EXTENDS Integers, Sequences, FiniteSets, TLC

VARIABLES
    rng,      \* the process-wide numpy generator: [origin, draws]
    lds,      \* the low-discrepancy generator's parameters, one pair per dimension
    problem,  \* the problem definition handed to the samplers
    lat,      \* the call of latin.sample: its arguments, locals and return value
    rad,      \* the last call of radial.sample
    radPrev,  \* the call of radial.sample before it
    jan       \* the call of sobol_jansen.analyze

vars == <<rng, lds, problem, lat, rad, radPrev, jan>>

(***************************************************************************)
(* Bounds of the model.                                                    *)
(***************************************************************************)
MaxN == 2
MaxD == 2

\* seed=None, the default of the seed arguments
None == -1

\* What random_sample() returns for one uniform draw: 0 for r = 0, 1 for an r
\* strictly between, 2 for the largest value it returns, r = 1 - 2^-53.
SubCells == {0, 1, 2}

\* The steps of the grid a stratum spans.  The exact end j/N of a stratum is step
\* j * Res; an end that the doubles round down or up lies one step below or above
\* it, and a draw strictly inside the stratum at its middle step.
Res == 2 * (Cardinality(SubCells) - 1)

\* The <<N, j>>, N <= 8, for which j * d, d = 1.0 / N, is as a double less than
\* j/N, and those for which it is greater.
EndBelow ==
    {<<3, 1>>, <<3, 2>>, <<6, 1>>, <<6, 2>>, <<6, 4>>, <<6, 5>>,
     <<7, 1>>, <<7, 2>>, <<7, 3>>, <<7, 4>>, <<7, 5>>, <<7, 6>>}
EndAbove == {<<5, 1>>, <<5, 2>>, <<5, 3>>, <<5, 4>>}

\* The <<N, j>>, N <= 8, for which low + (high - low) * r, low = j * d and
\* high = (j + 1) * d, is as a double equal to high for the largest r.
HighReached ==
    {<<2, 1>>, <<3, 2>>, <<4, 1>>, <<4, 2>>, <<4, 3>>,
     <<5, 1>>, <<5, 2>>, <<5, 3>>, <<5, 4>>,
     <<6, 2>>, <<6, 3>>, <<6, 4>>, <<6, 5>>,
     <<7, 1>>, <<7, 3>>, <<7, 4>>, <<7, 5>>, <<7, 6>>,
     <<8, 1>>, <<8, 2>>, <<8, 3>>, <<8, 4>>, <<8, 5>>, <<8, 6>>, <<8, 7>>}

\* The [low, high] ranges a parameter of a problem may have.  An end <<n, u>> is
\* the double n + u * 2^-52: the ranges are [0, 1], [-1, 1] and [1, 1 + 2^-50],
\* the doubles of which are 1, 1 + 2^-52, ..., 1 + 4 * 2^-52.
BoundChoices ==
    {<<<<0, 0>>, <<1, 0>>>>, <<<<-1, 0>>, <<1, 0>>>>, <<<<1, 0>>, <<1, 4>>>>}

Range(f) == {f[x] : x \in DOMAIN f}

(***************************************************************************)
(* numpy's global generator.  origin is the seed it was last seeded with   *)
(* (None: seeded from the operating system), draws the number of values    *)
(* requested from it since, a shuffle counting as one.                     *)
(***************************************************************************)
RngStates == {[origin |-> None, draws |-> 0], [origin |-> None, draws |-> 1]}

np_random_seed(seed) == [origin |-> seed, draws |-> 0]

np_random_draw(g, k) == [g EXCEPT !.draws = @ + k]

(***************************************************************************)
(* SALib.util.scale_samples and nonuniform_scale_samples: a unit-cube      *)
(* coordinate x = v/den goes to x * (high - low) + low, computed in         *)
(* doubles.  The value is returned as a pair <<n, u>>, the double           *)
(* n/den + u * 2^-52.  Over [0, 1] and [-1, 1] the doubles hold the result  *)
(* of a grid coordinate exactly.  Over [1, 1 + k * 2^-52] the product       *)
(* x * (k * 2^-52) is exact and the sum with 1 is rounded to the nearest    *)
(* double, a multiple of 2^-52, ties going to the even one.                 *)
(***************************************************************************)
Zero == <<0, 0>>

\* a/b, a >= 0 and b > 0, rounded to the nearest integer, ties to the even one
RoundHalfEven(a, b) ==
    LET q == a \div b
        r == a % b
    IN IF 2 * r < b THEN q
       ELSE IF 2 * r > b THEN q + 1
       ELSE IF q % 2 = 0 THEN q ELSE q + 1

scale_value(v, den, b) ==
    LET low == b[1]
        high == b[2]
    IN IF high[1] = low[1]
         THEN <<low[1] * den, low[2] + RoundHalfEven(v * (high[2] - low[2]), den)>>
         ELSE <<v * (high[1] - low[1]) + low[1] * den, 0>>

scale_samples(m, den, bounds) ==
    [r \in DOMAIN m |-> [c \in DOMAIN m[r] |-> scale_value(m[r][c], den, bounds[c])]]

\* The doubles the scaling can give a coordinate of the Latin sampler's matrix,
\* v being its step on the grid of N * Res steps, den = N * Res.  Step j * Res
\* is the end j/N, the step below or above it that end rounded down or up, and
\* the middle step of stratum j any double strictly inside the stratum.  Over
\* [0, 1] and [-1, 1] the step scales as a coordinate does.  Over
\* [1, 1 + w * 2^-52] the result is 1 + k * 2^-52: for an end, k is w * j/N
\* rounded to the nearest integer, a tie going to the even integer, or down or
\* up with an end rounded down or up; for a double inside the stratum, k is any
\* integer that some x with j/N < x < (j+1)/N has as the nearest one to w * x.
latin_scale_value(v, den, b) ==
    LET low == b[1]
        high == b[2]
        w == high[2] - low[2]
        j == (v + 1) \div Res
        a == w * j * Res
        ks == IF v = j * Res THEN {RoundHalfEven(a, den)}
              ELSE IF v = j * Res - 1 THEN {-((den - 2 * a) \div (2 * den))}
              ELSE IF v = j * Res + 1 THEN {(2 * a + den) \div (2 * den)}
              ELSE {k \in 0..w : /\ 2 * a < (2 * k + 1) * den
                                 /\ 2 * (a + w * Res) > (2 * k - 1) * den}
    IN IF high[1] = low[1]
         THEN {<<low[1] * den, low[2] + k>> : k \in ks}
         ELSE {scale_value(v, den, b)}

\* the matrices scale_samples(result, bounds) can leave in result
latin_scale_samples(m, den, bounds) ==
    LET steps == UNION {Range(m[r]) : r \in DOMAIN m}
        values == UNION {latin_scale_value(v, den, b) : v \in steps, b \in Range(bounds)}
    IN {out \in [DOMAIN m -> [DOMAIN bounds -> values]] :
           \A r \in DOMAIN m : \A c \in DOMAIN bounds :
               out[r][c] \in latin_scale_value(m[r][c], den, bounds[c])}

\* every distribution tag of the model is "unif": the inverse CDF of the uniform
\* distribution over [low, high]
nonuniform_scale_samples(m, den, bounds, dists) == latin_scale_samples(m, den, bounds)

(***************************************************************************)
(* latin.sample                                                            *)
(***************************************************************************)
Perms(N) == {p \in [1..N -> 1..N] : \A a, b \in 1..N : p[a] = p[b] => a = b}

\* j * d, with d = 1.0 / N, as the doubles compute it (j is 0-based): low of
\* stratum j and high of stratum j - 1
StratumEnd(N, j) ==
    j * Res + (IF <<N, j>> \in EndBelow THEN -1
               ELSE IF <<N, j>> \in EndAbove THEN 1 ELSE 0)

\* np.random.uniform(low=j*d, high=(j+1)*d), which computes low + (high-low)*r:
\* low for r = 0, high when the sum rounds to it, a value between them otherwise
Uniform(N, j, u) ==
    IF u = 0 THEN StratumEnd(N, j)
    ELSE IF u = 2 /\ <<N, j>> \in HighReached THEN StratumEnd(N, j + 1)
    ELSE j * Res + Res \div 2

\* np.random.shuffle(temp), p being the permutation it draws
Shuffle(temp, p) == [k \in DOMAIN temp |-> temp[p[k]]]

\* one pass of the loop over the dimensions: temp after the draws and the shuffle
LatinColumn(N, u, p) == Shuffle([j \in 1..N |-> Uniform(N, j - 1, u[j])], p)

\* every temp one pass of the loop can end with
LatinColumns(N) ==
    {LatinColumn(N, u, p) : u \in [1..N -> SubCells], p \in Perms(N)}

\* result after the loop: result[j, i] = temp[j] of dimension i
LatinUnit(N, D, temps) == [j \in 1..N |-> [i \in 1..D |-> temps[i][j]]]

LatinIdle == [state |-> "idle", N |-> 0, result |-> <<>>, den |-> 1, out |-> <<>>]

LatinSample ==
    /\ lat.state = "idle"
    /\ \E N \in 1..MaxN :
         LET D == problem.num_vars IN
         \E temps \in [1..D -> LatinColumns(N)] :
           LET result == LatinUnit(N, D, temps)
               den == N * Res
               outs == IF problem.dists = <<>>
                         THEN latin_scale_samples(result, den, problem.bounds)
                         ELSE nonuniform_scale_samples(result, den, problem.bounds,
                                                       problem.dists)
           IN /\ \E out \in outs :
                    lat' = [state |-> "returned", N |-> N, result |-> result,
                            den |-> den, out |-> out]
              \* N uniform draws and one shuffle per dimension
              /\ rng' = np_random_draw(rng, D * (N + 1))
    /\ UNCHANGED <<lds, problem, rad, radPrev, jan>>

Problems ==
    UNION {[num_vars : {D}, bounds : [1..D -> BoundChoices],
            dists : {<<>>, [c \in 1..D |-> "unif"]}] : D \in 1..MaxD}

LdsIdle == <<>>
RadIdle == [state |-> "idle"]
JanIdle == [state |-> "idle"]

InitLatin ==
    /\ rng = [origin |-> None, draws |-> 0]
    /\ lds = LdsIdle
    /\ problem \in Problems
    /\ lat = LatinIdle
    /\ rad = RadIdle
    /\ radPrev = RadIdle
    /\ jan = JanIdle

SpecLatin == InitLatin /\ [][LatinSample]_vars

\* the values of column i of the matrix built before scaling that lie in the
\* stratum [s/N, (s+1)/N), s 0-based
InStratum(i, s) ==
    {j \in 1..lat.N : lat.result[j][i] >= s * Res /\ lat.result[j][i] < (s + 1) * Res}

\* C1: latin.sample builds, before scaling, N rows of D columns, and
\* in every column each of the N strata [j/N, (j+1)/N) holds exactly one value.
C1_Original ==
    lat.state = "returned" =>
        /\ Len(lat.result) = lat.N
        /\ \A j \in 1..lat.N : Len(lat.result[j]) = problem.num_vars
        /\ \A i \in 1..problem.num_vars : \A s \in 0..(lat.N - 1) :
             Cardinality(InStratum(i, s)) = 1

\* What the code keeps of the stratification: N rows of D columns, and the
\* values of every column can be matched one to one with the N strata so that
\* the value matched with stratum j lies between the ends j * d and (j + 1) * d
\* the code computes, both included.
C1_Stratified ==
    lat.state = "returned" =>
        /\ Len(lat.result) = lat.N
        /\ \A j \in 1..lat.N : Len(lat.result[j]) = problem.num_vars
        /\ \A i \in 1..problem.num_vars : \E p \in Perms(lat.N) :
             \A j \in 1..lat.N :
                /\ lat.result[p[j]][i] >= StratumEnd(lat.N, j - 1)
                /\ lat.result[p[j]][i] <= StratumEnd(lat.N, j)

\* a call with several rows and columns: in the first column a draw came out
\* as the upper end of its stratum and the shuffle moved it to the first row, in
\* the second every value lies inside its stratum
C1_Witness ==
    /\ lat.state = "returned"
    /\ lat.N >= 2
    /\ problem.num_vars >= 2
    /\ lat.result[1][1] = lat.N * Res
    /\ InStratum(1, lat.N - 1) = {}
    /\ \A s \in 0..(lat.N - 1) : Cardinality(InStratum(2, s)) = 1

(***************************************************************************)
(* The low-discrepancy sequence generator, SALib.sample.sobol_sequence.    *)
(* Its points are fixed, whatever the state of numpy's generator: point    *)
(* number idx (0-based) has, in dimension c, the coordinate                *)
(*     ((z * idx + s) % LdsGrid) / LdsGrid                                 *)
(* of the lattice sequence with generator z and shift s, lds[c] = <<z, s>>.*)
(* sample(count, D) returns the first count points; a longer request       *)
(* starts with the points of a shorter one.  The generators have no factor *)
(* in common with the grid, so that, as in a Sobol sequence, no coordinate *)
(* comes back among the points one call uses.                              *)
(***************************************************************************)
LdsGrid == 8

LdsGens == {<<1, 0>>, <<5, 1>>, <<7, 0>>}

LdsValue(idx, c) == (lds[c][1] * idx + lds[c][2]) % LdsGrid

sobol_sample(count, D) == [k \in 1..count |-> [c \in 1..D |-> LdsValue(k - 1, c)]]

\* the numbers of the points sobol_sample(count, D) returns, row by row
sobol_index(count) == [k \in 1..count |-> k - 1]

(***************************************************************************)
(* radial.sample                                                           *)
(***************************************************************************)
Seeds == {None, 0, 1}

\* `if seed:` holds for an integer other than 0, not for None
Truthy(seed) == seed # None /\ seed # 0

discard == 4

\* a[k:]
Drop(a, k) == SubSeq(a, k + 1, Len(a))

\* base_sequence[discard:]
SubsetBaseOffByOne(a) == Drop(a, discard - 1)
SubsetBase(a) == Drop(a, discard)

\* perturbations[R:]
SubsetPerturbationsFromDiscard(a, R) == Drop(a, discard)
SubsetPerturbations(a, R) == Drop(a, R)

\* np.repeat(a, repeats=group, axis=0)
Repeat(a, group) == [r \in 1..(Len(a) * group) |-> a[((r - 1) \div group) + 1]]

\* np.diag(v)
Diag(v) == [k \in 1..Len(v) |-> [c \in 1..Len(v) |-> IF k = c THEN v[k] ELSE Zero]]

\* np.copyto(sample_set[grp_start+1:grp_start+num_vars+1], mod, where=mod != 0.0)
CopyToNoMask(sample_set, grp_start, mod) ==
    [r \in 1..Len(sample_set) |->
        IF r - 1 - grp_start \in 1..Len(mod)
          THEN mod[r - 1 - grp_start]
          ELSE sample_set[r]]
CopyTo(sample_set, grp_start, mod) ==
    [r \in 1..Len(sample_set) |->
        IF r - 1 - grp_start \in 1..Len(mod)
          THEN [c \in 1..Len(mod) |->
                  IF mod[r - 1 - grp_start][c] # Zero
                    THEN mod[r - 1 - grp_start][c]
                    ELSE sample_set[r][c]]
          ELSE sample_set[r]]

\* the loop over the perturbations, from pass i (1-based) on
RECURSIVE Overlay(_, _, _, _)
Overlay(sample_set, perturbations, i, grp_start) ==
    IF i > Len(perturbations)
      THEN sample_set
      ELSE Overlay(CopyTo(sample_set, grp_start, Diag(perturbations[i])),
                   perturbations, i + 1, grp_start + Len(perturbations[i]) + 1)

\* the locals of sample(problem, N, seed) at its return
radial_sample_seed_skip(N, seed) ==
    LET num_vars == problem.num_vars
        skip == IF Truthy(seed) THEN seed ELSE 0
        R == N + discard
        subsetted_base ==
            scale_samples(Drop(sobol_sample(R + skip, num_vars), discard + skip),
                          LdsGrid, problem.bounds)
        perturbations ==
            scale_samples(Drop(sobol_sample(R + N + skip, num_vars), R + skip),
                          LdsGrid, problem.bounds)
    IN [state |-> "returned", N |-> N, seed |-> seed,
        base |-> subsetted_base,
        baseIdx |-> Drop(sobol_index(R + skip), discard + skip),
        perturbations |-> perturbations,
        pertIdx |-> Drop(sobol_index(R + N + skip), R + skip),
        out |-> Overlay(Repeat(subsetted_base, num_vars + 1), perturbations, 1, 0)]
radial_sample(N, seed) ==
    LET num_vars == problem.num_vars
        bounds == problem.bounds
        R == N + discard
        base_sequence == sobol_sample(R, num_vars)
        subsetted_base == scale_samples(SubsetBase(base_sequence), LdsGrid, bounds)
        group == num_vars + 1
        sample_set == Repeat(subsetted_base, group)
        perturbations ==
            scale_samples(SubsetPerturbations(sobol_sample(R + N, num_vars), R),
                          LdsGrid, bounds)
    IN [state |-> "returned", N |-> N, seed |-> seed,
        base |-> subsetted_base,
        baseIdx |-> SubsetBase(sobol_index(R)),
        perturbations |-> perturbations,
        pertIdx |-> SubsetPerturbations(sobol_index(R + N), R),
        out |-> Overlay(sample_set, perturbations, 1, 0)]

RadialSample ==
    /\ \E N \in 1..MaxN, seed \in Seeds :
         /\ rad' = radial_sample(N, seed)
         /\ rng' = IF Truthy(seed) THEN np_random_seed(seed) ELSE rng
    /\ radPrev' = rad
    /\ UNCHANGED <<lds, problem, lat, jan>>

InitRadial ==
    /\ rng = [origin |-> None, draws |-> 0]
    /\ problem \in {p \in Problems : p.dists = <<>>}
    /\ lds \in [1..problem.num_vars -> LdsGens]
    /\ lat = LatinIdle
    /\ rad = RadIdle
    /\ radPrev = RadIdle
    /\ jan = JanIdle

SpecRadial == InitRadial /\ [][RadialSample]_vars
\* row k (0-based) of block i (0-based) of the returned matrix
BlockRow(i, k) == rad.out[i * (problem.num_vars + 1) + k + 1]

\* the columns in which two rows differ
DiffCols(a, b) == {c \in 1..problem.num_vars : a[c] # b[c]}

\* the scaled point number idx (0-based) of the low-discrepancy sequence
ScaledPoint(idx) ==
    [c \in 1..problem.num_vars |->
        scale_value(LdsValue(idx, c), LdsGrid, problem.bounds[c])]

\* C2, as claimed: every perturbed row differs from its block's baseline row in
\* at most one coordinate, and equals it in every coordinate only when the
\* perturbation value of that replicate and dimension is exactly zero.
C2_Original ==
    rad.state = "returned" =>
        \A i \in 0..(rad.N - 1) : \A k \in 1..problem.num_vars :
            /\ Cardinality(DiffCols(BlockRow(i, k), BlockRow(i, 0))) <= 1
            /\ BlockRow(i, k) = BlockRow(i, 0) => rad.perturbations[i + 1][k] = Zero

\* C2, amended: every perturbed row differs from its block's baseline row in at
\* most one coordinate, that of its own dimension, and equals it in every
\* coordinate only when the perturbation value of that replicate and dimension
\* is exactly zero or equals the baseline's value in that coordinate.
C2_OneAtATime ==
    rad.state = "returned" =>
        \A i \in 0..(rad.N - 1) : \A k \in 1..problem.num_vars :
            /\ DiffCols(BlockRow(i, k), BlockRow(i, 0)) \subseteq {k}
            /\ BlockRow(i, k) = BlockRow(i, 0) =>
                 \/ rad.perturbations[i + 1][k] = Zero
                 \/ rad.perturbations[i + 1][k] = BlockRow(i, 0)[k]

\* one block holds a row moved in its own coordinate, whose moved value replaced
\* a different baseline value, and a row left as the baseline by a zero perturbation
C2_Witness ==
    /\ rad.state = "returned"
    /\ problem.num_vars >= 2
    /\ \E i \in 0..(rad.N - 1) : \E k, m \in 1..problem.num_vars :
         /\ DiffCols(BlockRow(i, k), BlockRow(i, 0)) = {k}
         /\ BlockRow(i, k)[k] = rad.perturbations[i + 1][k]
         /\ rad.perturbations[i + 1][m] = Zero
         /\ BlockRow(i, 0)[m] # Zero
         /\ BlockRow(i, m) = BlockRow(i, 0)

\* C3: radial.sample returns N*(D+1) rows of D columns, and row i*(D+1) is the
\* scaled point number i+4 of the low-discrepancy sequence, for i = 0..N-1.
C3_Layout ==
    rad.state = "returned" =>
        /\ Len(rad.out) = rad.N * (problem.num_vars + 1)
        /\ \A r \in 1..Len(rad.out) : Len(rad.out[r]) = problem.num_vars
        /\ \A i \in 0..(rad.N - 1) : BlockRow(i, 0) = ScaledPoint(i + 4)

\* several replicates, the baselines of which differ from the discarded point
\* just before them and from one another, and a perturbed row that moved
C3_Witness ==
    /\ rad.state = "returned"
    /\ rad.N >= 2
    /\ BlockRow(0, 0) # ScaledPoint(3)
    /\ BlockRow(1, 0) # BlockRow(0, 0)
    /\ BlockRow(0, 1) # BlockRow(0, 0)

\* C8, as claimed: two calls with the same problem and N and different seeds
\* return different matrices.
C8_Original ==
    (/\ rad.state = "returned"
     /\ radPrev.state = "returned"
     /\ rad.N = radPrev.N
     /\ rad.seed # radPrev.seed) => rad.out # radPrev.out

\* C8, amended: two calls with the same problem and N return the same matrix,
\* whatever their seeds.
C8_SeedIndependent ==
    (/\ rad.state = "returned"
     /\ radPrev.state = "returned"
     /\ rad.N = radPrev.N) => rad.out = radPrev.out

\* two calls with the same N, one of which reseeded numpy's generator and the
\* other did not
C8_Witness ==
    /\ rad.state = "returned"
    /\ radPrev.state = "returned"
    /\ rad.N = radPrev.N
    /\ Truthy(rad.seed)
    /\ radPrev.seed = None
    /\ rng.origin = rad.seed

\* C10: the baselines are the points 4..N+3 and the perturbations the points
\* N+4..2N+3 of the sequence, N each and none in common, and replicate i is
\* perturbed by point R+i, R = N+4.
C10_StreamsSeparate ==
    rad.state = "returned" =>
        /\ rad.baseIdx = [k \in 1..rad.N |-> k + 3]
        /\ rad.pertIdx = [k \in 1..rad.N |-> rad.N + 3 + k]
        /\ Range(rad.baseIdx) \cap Range(rad.pertIdx) = {}
        /\ Cardinality(Range(rad.baseIdx)) = rad.N
        /\ Cardinality(Range(rad.pertIdx)) = rad.N
        /\ \A i \in 0..(rad.N - 1) :
             /\ rad.perturbations[i + 1] = ScaledPoint(rad.N + 4 + i)
             /\ \A k \in 1..problem.num_vars :
                  BlockRow(i, k)[k] =
                      IF ScaledPoint(rad.N + 4 + i)[k] # Zero
                        THEN ScaledPoint(rad.N + 4 + i)[k]
                        ELSE ScaledPoint(i + 4)[k]

\* several replicates whose perturbation points differ from one another and
\* from the baseline points
C10_Witness ==
    /\ rad.state = "returned"
    /\ rad.N >= 2
    /\ rad.perturbations[1] # rad.perturbations[2]
    /\ \A a, b \in 1..rad.N : rad.perturbations[a] # rad.base[b]
    /\ BlockRow(1, 1)[1] = rad.perturbations[2][1]
    /\ BlockRow(1, 1)[1] # rad.perturbations[1][1]
(***************************************************************************)
(* Exact arithmetic for the estimator.  A value is a pair <<n, d>>: the    *)
(* fraction n/d in lowest terms when d > 0, and what IEEE division by zero *)
(* gives when d = 0: <<1, 0>> is inf, <<-1, 0>> is -inf, <<0, 0>> is nan.  *)
(***************************************************************************)
Abs(x) == IF x < 0 THEN -x ELSE x

Sign(x) == IF x < 0 THEN -1 ELSE IF x > 0 THEN 1 ELSE 0

RECURSIVE GCD(_, _)
GCD(a, b) == IF b = 0 THEN a ELSE GCD(b, a % b)

Frac(n, d) ==
    IF d = 0
      THEN <<Sign(n), 0>>
      ELSE <<Sign(d) * (n \div GCD(Abs(n), Abs(d))), Abs(d) \div GCD(Abs(n), Abs(d))>>

NaN == <<0, 0>>

Finite(a) == a[2] # 0

FracInt(x) == <<x, 1>>

FracAdd(a, b) ==
    IF Finite(a) /\ Finite(b)
      THEN LET g == GCD(a[2], b[2])
           IN Frac(a[1] * (b[2] \div g) + b[1] * (a[2] \div g), (a[2] \div g) * b[2])
    ELSE IF Finite(b) THEN a
    ELSE IF Finite(a) \/ a = b THEN b
    ELSE NaN

FracNeg(a) == <<-a[1], a[2]>>

FracSub(a, b) == FracAdd(a, FracNeg(b))

FracMul(a, b) ==
    IF Finite(a) /\ Finite(b)
      THEN LET g == GCD(Abs(a[1]), b[2])
               h == GCD(Abs(b[1]), a[2])
           IN Frac((a[1] \div g) * (b[1] \div h), (a[2] \div h) * (b[2] \div g))
    ELSE <<Sign(a[1]) * Sign(b[1]), 0>>

\* a / b: a finite value over zero is inf, -inf or nan
FracDiv(a, b) ==
    IF Finite(a) /\ Finite(b)
      THEN IF b[1] = 0 THEN <<Sign(a[1]), 0>> ELSE FracMul(a, Frac(b[2], b[1]))
    ELSE IF Finite(b) THEN <<Sign(a[1]) * (IF b[1] < 0 THEN -1 ELSE 1), 0>>
    ELSE IF Finite(a) THEN (IF b[1] = 0 THEN NaN ELSE <<0, 1>>)
    ELSE NaN

RECURSIVE FracSum(_, _)
FracSum(a, k) == IF k = 0 THEN <<0, 1>> ELSE FracAdd(FracSum(a, k - 1), a[k])

\* ndarray.var(ddof) and np.var: the mean of the squared deviations from the
\* mean, the divisor being the number of values less ddof
Variance(a, ddof) ==
    LET mean == FracDiv(FracSum(a, Len(a)), FracInt(Len(a)))
        dev == [k \in 1..Len(a) |-> FracMul(FracSub(a[k], mean), FracSub(a[k], mean))]
    IN FracDiv(FracSum(dev, Len(a)), FracInt(Len(a) - ddof))

(***************************************************************************)
(* sobol_jansen.analyze                                                    *)
(***************************************************************************)
MaxSets == 2
MaxResamples == 2
MaxLen == 6
MaxIndexDraws == 4

\* the values a model output takes
YVals == {0, 1}

\* the outputs of the specification's third scenario
Scenario3 == <<10, 12, 9, 20, 22, 21>>

\* conf_level, in hundredths
ConfLevels == {-50, 0, 95, 100}

\* Y[start::step], start 0-based
Stride(Y, start, step) ==
    [k \in 1..((Len(Y) - start + step - 1) \div step) |-> Y[start + (k - 1) * step + 1]]

\* np.var(Y_base)
BaseVariance(Y_base) == Variance([b \in 1..Len(Y_base) |-> FracInt(Y_base[b])], 0)

\* jansen_estimator(N, si) along axis 0, for one position of the other axes:
\* (1.0/(2.0*N)) * np.sum(si**2, axis=0)
jansen_estimator_no_half(N, si) ==
    FracMul(Frac(1, N),
            FracSum([t \in 1..Len(si) |-> FracInt(si[t] * si[t])], Len(si)))
jansen_estimator(N, si) ==
    FracMul(Frac(1, 2 * N),
            FracSum([t \in 1..Len(si) |-> FracInt(si[t] * si[t])], Len(si)))

\* st[i] = Y_base - Y[pos::nth], for every dimension
Effects(Y, num_vars) ==
    LET nth == num_vars + 1
        Y_base == Stride(Y, 0, nth)
    IN [i \in 1..num_vars |->
          [b \in 1..Len(Y_base) |-> Y_base[b] - Stride(Y, i, nth)[b]]]

\* Si['ST'] = jansen_estimator(r, st.T) / base_variance
TotalEffect(st, r, base_variance) ==
    [i \in 1..Len(st) |-> FracDiv(jansen_estimator(r, st[i]), base_variance)]

\* res = jansen_estimator(N, si_resampled) / base_var in
\* compute_radial_si_confidence: si_resampled = tmp_si[resample_index] has shape
\* (num_resamples, N, D) and the sum runs along its axis 0, so res has shape (N, D)
Resampled(si, base_var, N, resample_index) ==
    [k \in 1..N |->
       [d \in 1..Len(si) |->
          FracDiv(jansen_estimator(N, [t \in 1..Len(resample_index) |->
                                          si[d][resample_index[t][k]]]),
                  base_var)]]

\* res.std(ddof=1, axis=0), as the variance under the square root
StdAxis0(res, D) ==
    [d \in 1..D |-> Variance([k \in 1..Len(res) |-> res[k][d]], 1)]

JanArgs ==
    [num_vars : 1..MaxD, sample_sets : 1..MaxSets,
     num_resamples : 1..MaxResamples, conf_level : ConfLevels,
     seed : Seeds,
     Y : UNION {[1..len -> YVals] : len \in 1..MaxLen} \cup {Scenario3}]

JanPending(a) ==
    [state |-> "pending", args |-> a, error |-> "", names |-> <<>>, ST |-> <<>>,
     ST_conf |-> <<>>, st |-> <<>>, base_variance |-> NaN, res |-> <<>>,
     resample_index |-> <<>>]

\* the assertion on the shape of Y, then `if seed: np.random.set_seed(seed)`:
\* the module numpy.random has no attribute set_seed, so that line raises
EntryErrorSeedFirst(a) ==
    IF Truthy(a.seed) THEN "AttributeError"
    ELSE IF Len(a.Y) # a.sample_sets * (problem.num_vars + 1) THEN "AssertionError"
    ELSE ""
EntryError(a) ==
    IF Len(a.Y) # a.sample_sets * (problem.num_vars + 1) THEN "AssertionError"
    ELSE IF Truthy(a.seed) THEN "AttributeError"
    ELSE ""

\* `if not 0 < conf_level < 1` in compute_radial_si_confidence
ConfOK(conf_level) == 0 < conf_level /\ conf_level < 100

\* the outcome of analyze(problem, Y, sample_sets, num_resamples, conf_level,
\* seed), resample_index being what np.random.randint returns if it is reached
analyze(a, resample_index) ==
    LET num_vars == problem.num_vars
        raised(e) == [JanPending(a) EXCEPT !.state = "raised", !.error = e]
        st == Effects(a.Y, num_vars)
        base_variance == BaseVariance(Stride(a.Y, 0, num_vars + 1))
        r == a.sample_sets
        ST == TotalEffect(st, r, base_variance)
        res == Resampled(st, base_variance, r, resample_index)
        conf == StdAxis0(res, num_vars)
    IN IF EntryError(a) # ""
         THEN raised(EntryError(a))
       ELSE IF ~ConfOK(a.conf_level)
         THEN [raised("ValueError") EXCEPT !.st = st, !.base_variance = base_variance]
       ELSE [state |-> "returned", args |-> a, error |-> "", names |-> problem.names,
             ST |-> ST,
             \* norm.ppf(0.5 + conf_level / 2.0) * std, kept as the level and the
             \* variance under the square root
             ST_conf |-> [d \in 1..num_vars |-> [conf_level |-> a.conf_level,
                                                  variance |-> conf[d]]],
             st |-> st, base_variance |-> base_variance, res |-> res,
             resample_index |-> resample_index]

\* whether the call reaches np.random.randint
ReachesRandint(a) == EntryError(a) = "" /\ ConfOK(a.conf_level)

Analyze ==
    /\ jan.state = "pending"
    /\ LET a == jan.args IN
       IF ReachesRandint(a)
         THEN \E resample_index \in
                  [1..a.num_resamples -> [1..a.sample_sets -> 1..a.sample_sets]] :
                /\ jan' = analyze(a, resample_index)
                /\ rng' = np_random_draw(rng, a.num_resamples * a.sample_sets)
         ELSE /\ jan' = analyze(a, <<>>)
              /\ rng' = rng
    /\ UNCHANGED <<lds, problem, lat, rad, radPrev>>

InitJansen ==
    /\ rng \in RngStates
    /\ lds = LdsIdle
    /\ \E a \in JanArgs :
         /\ a.num_resamples * a.sample_sets <= MaxIndexDraws
         /\ problem = [num_vars |-> a.num_vars, names |-> [c \in 1..a.num_vars |-> c]]
         /\ jan = JanPending(a)
    /\ lat = LatinIdle
    /\ rad = RadIdle
    /\ radPrev = RadIdle

SpecJansen == InitJansen /\ [][Analyze]_vars
\* the sum of f[1], ..., f[k]
RECURSIVE IntSum(_, _)
IntSum(f, k) == IF k = 0 THEN 0 ELSE IntSum(f, k - 1) + f[k]

\* Y[b*(D+1) + i] of the pending or finished call, b and i 0-based
YAt(b, i) == jan.args.Y[b * (problem.num_vars + 1) + i + 1]

\* the sum over the blocks of (Y[b*(D+1)] - Y[b*(D+1)+i])^2
SquaredEffects(i) ==
    IntSum([b \in 1..jan.args.sample_sets |->
              (YAt(b - 1, 0) - YAt(b - 1, i)) * (YAt(b - 1, 0) - YAt(b - 1, i))],
           jan.args.sample_sets)

\* r * sum(y^2) - sum(y)^2 over the block baselines y: r^2 times their
\* population variance, r * (r - 1) times their sample variance
BaselineSpread ==
    LET r == jan.args.sample_sets IN
    r * IntSum([b \in 1..r |-> YAt(b - 1, 0) * YAt(b - 1, 0)], r)
      - IntSum([b \in 1..r |-> YAt(b - 1, 0)], r) * IntSum([b \in 1..r |-> YAt(b - 1, 0)], r)

\* whether len(Y) / sample_sets is D+1 for the call's arguments
ShapeHolds == Len(jan.args.Y) = jan.args.sample_sets * (problem.num_vars + 1)

\* C4, as claimed: ST_i is the sum of the squared effects over 2*sample_sets over
\* the sample variance (divisor sample_sets - 1) of the block baselines; for the
\* third scenario Var([10,20]) = 50, ST_1 = 8/4/50 and ST_2 = 2/4/50.  Stated
\* for baselines that are not all equal, where that variance is not zero.
C4_Original ==
    (jan.state = "returned" /\ BaselineSpread # 0) =>
        LET r == jan.args.sample_sets IN
        /\ \A i \in 1..problem.num_vars :
             jan.ST[i] = Frac(SquaredEffects(i) * (r - 1), 2 * BaselineSpread)
        /\ jan.args.Y = Scenario3 /\ r = 2 => jan.ST = <<Frac(1, 25), Frac(1, 100)>>

\* C4, amended: a call with a well-shaped Y, a valid conf_level and a seed that
\* is absent or 0 returns, and a call that returns gives ST_i as the sum of the
\* squared effects over 2*sample_sets over the population variance (divisor
\* sample_sets) of the block baselines; for the third scenario Var([10,20]) = 25,
\* ST_1 = 8/4/25 and ST_2 = 2/4/25.
C4_TotalEffect ==
    /\ (/\ jan.state # "pending"
        /\ ShapeHolds
        /\ ConfOK(jan.args.conf_level)
        /\ ~Truthy(jan.args.seed)) => jan.state = "returned"
    /\ jan.state = "returned" =>
        LET r == jan.args.sample_sets IN
        /\ Len(jan.ST) = problem.num_vars
        /\ \A i \in 1..problem.num_vars :
             jan.ST[i] = Frac(SquaredEffects(i) * r, 2 * BaselineSpread)
        /\ jan.args.Y = Scenario3 /\ r = 2 => jan.ST = <<Frac(2, 25), Frac(1, 50)>>

\* the third scenario was analysed
C4_Witness ==
    /\ jan.state = "returned"
    /\ jan.args.Y = Scenario3
    /\ jan.args.sample_sets = 2
    /\ problem.num_vars = 2
    /\ jan.st = <<<<-2, -2>>, <<1, -1>>>>
    /\ jan.ST = <<<<2, 25>>, <<1, 50>>>>

\* C5: a call whose len(Y) / sample_sets is not D+1 fails with the shape-mismatch
\* error, returns nothing and leaves the shared generator as it was.
C5_ShapeMismatch ==
    [][(jan.state = "pending" /\ ~ShapeHolds) =>
          /\ jan'.state = "raised"
          /\ jan'.error = "AssertionError"
          /\ jan'.ST = <<>> /\ jan'.ST_conf = <<>>
          /\ rng' = rng]_vars

\* a call with a mismatched Y failed, though it carried a seed and an invalid
\* confidence level as well
C5_Witness ==
    /\ jan.state = "raised"
    /\ jan.error = "AssertionError"
    /\ Truthy(jan.args.seed)
    /\ ~ConfOK(jan.args.conf_level)
    /\ Len(jan.args.Y) = jan.args.sample_sets * (problem.num_vars + 1) + 1

\* C6, as claimed: with a well-shaped Y and any seed, a call with conf_level <= 0
\* or conf_level >= 1 fails with a value error, returns nothing and leaves the
\* shared generator as it was.
C6_Claim ==
    [][(jan.state = "pending" /\ ShapeHolds /\ ~ConfOK(jan.args.conf_level)) =>
          /\ jan'.state = "raised"
          /\ jan'.error = "ValueError"
          /\ jan'.ST = <<>> /\ jan'.ST_conf = <<>>
          /\ rng' = rng]_vars

\* C7, as claimed: a call with a seed, a well-shaped Y and a valid conf_level
\* completes, having reset the shared generator from that seed.
C7_Claim ==
    [][(/\ jan.state = "pending"
        /\ ShapeHolds
        /\ ConfOK(jan.args.conf_level)
        /\ jan.args.seed # None) =>
          /\ jan'.state = "returned"
          /\ rng'.origin = jan.args.seed]_vars

\* the statistic of resample set t (1-based) in dimension d, as C9 states it
C9_Statistic(t, d) ==
    FracDiv(Frac(IntSum([k \in 1..jan.args.sample_sets |->
                           jan.st[d][jan.resample_index[t][k]]
                             * jan.st[d][jan.resample_index[t][k]]],
                        jan.args.sample_sets),
                 2 * jan.args.sample_sets),
            jan.base_variance)

\* C9, as claimed: the bootstrap computes num_resamples statistic values per
\* dimension, that of set t from the indices drawn in set t, and ST_conf is the
\* normal quantile times their ddof=1 standard deviation.
C9_Claim ==
    jan.state = "returned" =>
        /\ Len(jan.res) = jan.args.num_resamples
        /\ \A t \in 1..jan.args.num_resamples : \A d \in 1..problem.num_vars :
             jan.res[t][d] = C9_Statistic(t, d)
        /\ \A d \in 1..problem.num_vars :
             jan.ST_conf[d] =
                 [conf_level |-> jan.args.conf_level,
                  variance |-> Variance([t \in 1..jan.args.num_resamples |->
                                           C9_Statistic(t, d)], 1)]
====
